---- MODULE Spec2Model ----
(***************************************************************************)
(* Model of the vydra front end: the page controller (Home), the timed     *)
(* unlock modal (UnlockProModal) and the rewarded-ad provider (AdProvider). *)
(* Every event handler, timer callback and SDK callback is one action; the  *)
(* state updates a handler batches and the effect clean-up / set-up that    *)
(* React runs on the commit of that handler are part of the same action.    *)
(***************************************************************************)
EXTENDS Integers, Sequences, FiniteSets, TLC

\* ---------------------------------------------------------------- bounds
\* number of distinct video urls the user types
MaxUrls == 2
\* number of formats one AnalyzeResponse lists (the first is free)
FormatsPer == 2

\* ---------------------------------------------------------------- constants
\* useState(15) / setCountdown(15)
CountdownStart == 15

\* ---------------------------------------------------------------- data
NoResults == [null |-> "results"]
NoError == "null"
NoFormat == [null |-> "format"]
NoNav == [null |-> "navigation"]

VideoUrls == {"u" \o ToString(i) : i \in 1..MaxUrls}
\* the text input: empty, or one of the urls
Urls == {""} \cup VideoUrls

\* types.ts FormatInfo (size_mb plays no part in any handler)
FormatInfo(u, k) ==
    [format_id |-> u \o "-f" \o ToString(k),
     ext |-> IF k = 1 THEN "mp3" ELSE "mp4",
     quality |-> "q" \o ToString(k),
     is_premium |-> (k >= 2)]

\* types.ts AnalyzeResponse; formats is the ordered list the page renders
AnalyzeResponse(u) ==
    [title |-> "title of " \o u,
     original_url |-> u,
     formats |-> [k \in 1..FormatsPer |-> FormatInfo(u, k)]]

Responses == {AnalyzeResponse(u) : u \in VideoUrls}
AllFormats == {FormatInfo(u, k) : u \in VideoUrls, k \in 1..FormatsPer}

\* a {…} error body without a detail field (errorData.detail is undefined)
MissingDetail == "<undefined>"
\* what errorData.detail can be: missing, the empty string, or a message
Details == {MissingDetail, "", "bad url"}
GenericError == "An unknown error occurred."
ConnectError == "Failed to connect to the backend. Is it running?"
\* messages a thrown network failure can carry ("" is an Error with no message)
ThrownMessages == {"", "Failed to fetch"}

VARIABLES
    \* Home state (useState, page.tsx)
    url, loading, error, results, isModalOpen, selectedFormat,
    \* the analysis requests awaiting their response (the await in handleFetch),
    \* oldest first; each is the url that was posted
    inflight,
    \* UnlockProModal state
    countdown, isAdLoaded,
    \* UnlockProModal timers: how many of each are pending / running
    initTimer, interval, adLoadTimer,
    \* what the last step assigned to window.location.href (NoNav if nothing)
    navigated,
    \* which handler the last step ran
    lastStep,
    \* history of the current open session of the modal
    ticks, adLoadFired, openedFor,
    \* window.google_ad_platform is defined
    platform,
    \* AdProvider state (useState)
    rewardedAd, isAdReady,
    \* the deferred preload of the mount effect is pending
    mountTimer,
    \* the SDK <Script> has not fired onLoad yet
    scriptLoading,
    \* ad requests the platform has not answered yet (request numbers)
    requests,
    \* number of requestRewardedAd calls made so far
    issued,
    \* show() calls whose onAdClosed has not arrived yet
    showing,
    \* how often show() was called on each handle
    shown,
    \* which AdProvider handler the last step ran, and whether it ran onReward
    adStep, rewarded,
    \* history: requests issued since the last earned-reward callback (-1 when
    \* no reward was earned since the last successful show), and whether an
    \* onAdLoaded arrived since the last terminal ad event
    sinceReward, loadedSinceTerminal,
    \* window.adsbygoogle (the ad network's command queue) exists
    adsbygoogle,
    \* number of commands the last step pushed to that queue
    pushed,
    \* the modal's ad slot: "none" (nothing requested for this mount),
    \* "requested" (its AdDisplay pushed a command) or "painted" (the ad
    \* network has put an ad into the slot)
    slotAd

pageVars == <<url, loading, error, results, isModalOpen, selectedFormat, inflight>>
gateVars == <<countdown, isAdLoaded, initTimer, interval, adLoadTimer>>
histVars == <<navigated, lastStep, ticks, adLoadFired, openedFor>>
adVars == <<platform, rewardedAd, isAdReady, mountTimer, scriptLoading,
            requests, issued, showing, shown, adStep, rewarded,
            sinceReward, loadedSinceTerminal>>
slotVars == <<adsbygoogle, pushed, slotAd>>
vars == <<pageVars, gateVars, histVars, adVars, slotVars>>

\* ---------------------------------------------------------------- ad provider
\* bound on the requestRewardedAd calls of one run
MaxRequests == 4
\* bound on the show() calls of one run
MaxShows == 3

\* useState<RewardedAd | null>(null)
NoAd == 0
\* the handle onAdLoaded delivers for request r is written r
Ads == 1..MaxRequests

\* variant: preloadAd without setIsAdReady(false)
preloadAd_KeepsReady ==
    /\ isAdReady' = isAdReady
    /\ IF platform'
       THEN /\ requests' = requests \cup {issued + 1}
            /\ issued' = issued + 1
       ELSE UNCHANGED <<requests, issued>>

\* preloadAd(); window.google_ad_platform is read when it runs
preloadAd ==
    /\ isAdReady' = FALSE
    /\ IF platform'
       THEN /\ requests' = requests \cup {issued + 1}
            /\ issued' = issued + 1
       ELSE UNCHANGED <<requests, issued>>

\* history: count the requests of this step when a reward is being followed
CountSinceReward ==
    sinceReward' = IF sinceReward < 0 THEN sinceReward
                   ELSE sinceReward + (issued' - issued)

\* the mount effect's setTimeout(() => preloadAd(), 0)
MountTimerFire ==
    /\ mountTimer
    /\ issued < MaxRequests
    /\ mountTimer' = FALSE
    /\ platform' = platform
    /\ preloadAd
    /\ CountSinceReward
    /\ adStep' = "mountTimer"
    /\ rewarded' = FALSE
    /\ UNCHANGED <<rewardedAd, scriptLoading, showing, shown, loadedSinceTerminal>>
    /\ UNCHANGED <<pageVars, gateVars, histVars, slotVars>>

\* <Script onLoad>: the SDK script has run (it may or may not have defined
\* the platform global), then preloadAd()
ScriptOnLoad(defines) ==
    /\ scriptLoading
    /\ issued < MaxRequests
    /\ scriptLoading' = FALSE
    /\ platform' = (platform \/ defines)
    /\ preloadAd
    /\ CountSinceReward
    /\ adStep' = "scriptOnLoad"
    /\ rewarded' = FALSE
    /\ UNCHANGED <<rewardedAd, mountTimer, showing, shown, loadedSinceTerminal>>
    /\ UNCHANGED <<pageVars, gateVars, histVars, slotVars>>

\* variant: onAdLoaded sets the flag but does not store the handle
OnAdLoaded_NoHandle(r) ==
    /\ r \in requests
    /\ requests' = requests \ {r}
    /\ rewardedAd' = rewardedAd
    /\ isAdReady' = TRUE
    /\ loadedSinceTerminal' = TRUE
    /\ adStep' = "onAdLoaded"
    /\ rewarded' = FALSE
    /\ UNCHANGED <<platform, mountTimer, scriptLoading, issued, showing, shown,
                   sinceReward>>
    /\ UNCHANGED <<pageVars, gateVars, histVars, slotVars>>

\* onAdLoaded(ad) of request r
OnAdLoaded(r) ==
    /\ r \in requests
    /\ requests' = requests \ {r}
    /\ rewardedAd' = r
    /\ isAdReady' = TRUE
    /\ loadedSinceTerminal' = TRUE
    /\ adStep' = "onAdLoaded"
    /\ rewarded' = FALSE
    /\ UNCHANGED <<platform, mountTimer, scriptLoading, issued, showing, shown,
                   sinceReward>>
    /\ UNCHANGED <<pageVars, gateVars, histVars, slotVars>>

\* onAdFailedToLoad(error) of request r
OnAdFailedToLoad(r) ==
    /\ r \in requests
    /\ requests' = requests \ {r}
    /\ isAdReady' = FALSE
    /\ adStep' = "onAdFailedToLoad"
    /\ rewarded' = FALSE
    /\ UNCHANGED <<platform, rewardedAd, mountTimer, scriptLoading, issued,
                   showing, shown, sinceReward, loadedSinceTerminal>>
    /\ UNCHANGED <<pageVars, gateVars, histVars, slotVars>>

\* variant: the readiness flag is not consulted
CanShow_HandleOnly == rewardedAd # NoAd

\* if (rewardedAd && isAdReady)
CanShow == rewardedAd # NoAd /\ isAdReady

RECURSIVE SumShown(_)
SumShown(n) == IF n = 0 THEN 0 ELSE shown[n] + SumShown(n - 1)
\* number of show() calls made so far
TotalShown == SumShown(MaxRequests)

\* showRewardedAd(onReward)
showRewardedAd ==
    /\ IF CanShow
       THEN /\ TotalShown < MaxShows
            \* rewardedAd.show({...})
            /\ showing' = showing \cup
                   {[ad |-> rewardedAd, call |-> TotalShown + 1, earned |-> FALSE]}
            /\ shown' = [shown EXCEPT ![rewardedAd] = @ + 1]
            /\ sinceReward' = -1
            /\ adStep' = "showOk"
       ELSE \* alert("Ad is not ready yet. ...")
            /\ adStep' = "showAlert"
            /\ UNCHANGED <<showing, shown, sinceReward>>
    /\ rewarded' = FALSE
    /\ UNCHANGED <<platform, rewardedAd, isAdReady, mountTimer, scriptLoading,
                   requests, issued, loadedSinceTerminal>>
    /\ UNCHANGED <<pageVars, gateVars, histVars, slotVars>>

\* onUserEarnedReward of the show call s: onReward(), then preloadAd()
OnUserEarnedReward(s) ==
    /\ s \in showing
    /\ ~s.earned
    /\ issued < MaxRequests
    /\ showing' = (showing \ {s}) \cup {[s EXCEPT !.earned = TRUE]}
    /\ rewarded' = TRUE
    /\ platform' = platform
    /\ preloadAd
    /\ sinceReward' = issued' - issued
    /\ loadedSinceTerminal' = FALSE
    /\ adStep' = "earned"
    /\ UNCHANGED <<rewardedAd, mountTimer, scriptLoading, shown>>
    /\ UNCHANGED <<pageVars, gateVars, histVars, slotVars>>

\* onAdClosed of the show call s: preloadAd()
OnAdClosed(s) ==
    /\ s \in showing
    /\ issued < MaxRequests
    /\ showing' = showing \ {s}
    /\ platform' = platform
    /\ preloadAd
    /\ CountSinceReward
    /\ loadedSinceTerminal' = FALSE
    /\ adStep' = "closed"
    /\ rewarded' = FALSE
    /\ UNCHANGED <<rewardedAd, mountTimer, scriptLoading, shown>>
    /\ UNCHANGED <<pageVars, gateVars, histVars, slotVars>>

\* ---------------------------------------------------------------- ad unit
\* no AdDisplay is mounted at this place
NoSlot == ""
\* <AdDisplay slot="6711810243" /> of the page
BannerSlotId == "6711810243"
\* adSlotId="3664465767" of the modal
GateSlotId == "3664465767"

\* variant: the push is made without checking that the queue exists
AdDisplayEffect_Unchecked(prevSlot, slot) ==
    IF slot # NoSlot /\ slot # prevSlot THEN 1 ELSE 0

\* AdDisplay's useEffect(..., [slot]): the number of commands pushed when the
\* component commits with `slot` after a commit with prevSlot (NoSlot: it was
\* not mounted).  The effect runs on mount and when slot changed, and pushes
\* one command if window.adsbygoogle exists.
AdDisplayEffect(prevSlot, slot) ==
    IF slot # NoSlot /\ slot # prevSlot /\ adsbygoogle THEN 1 ELSE 0

\* the slot of the modal's AdDisplay: rendered only while the modal is open
GateAdSlot(open) == IF open THEN GateSlotId ELSE NoSlot

\* the AdDisplay effects of one commit of the page: the banner stays mounted
\* with its slot, the modal's instance follows isOpen
RenderAds(wasOpen, nowOpen) ==
    /\ pushed' = AdDisplayEffect(BannerSlotId, BannerSlotId)
                   + AdDisplayEffect(GateAdSlot(wasOpen), GateAdSlot(nowOpen))
    /\ slotAd' = IF ~nowOpen THEN "none"
                 ELSE IF wasOpen THEN slotAd
                 ELSE IF AdDisplayEffect(NoSlot, GateSlotId) > 0 THEN "requested"
                 ELSE "none"
    /\ UNCHANGED adsbygoogle

\* layout.tsx: the adsbygoogle.js script has run and created the queue
AdsScriptLoad ==
    /\ ~adsbygoogle
    /\ adsbygoogle' = TRUE
    /\ pushed' = 0
    /\ navigated' = NoNav
    /\ lastStep' = "adsScriptLoad"
    /\ UNCHANGED slotAd
    /\ UNCHANGED <<pageVars, gateVars, adVars>>
    /\ UNCHANGED <<ticks, adLoadFired, openedFor>>

\* the ad network paints an ad into the modal's slot after a request
SlotPainted ==
    /\ slotAd = "requested"
    /\ slotAd' = "painted"
    /\ pushed' = 0
    /\ navigated' = NoNav
    /\ lastStep' = "slotPainted"
    /\ UNCHANGED adsbygoogle
    /\ UNCHANGED <<pageVars, gateVars, adVars>>
    /\ UNCHANGED <<ticks, adLoadFired, openedFor>>

\* ---------------------------------------------------------------- modal
\* variant: || in place of &&
isUnlockable_Either == (countdown = 0) \/ isAdLoaded

\* const isUnlockable = (countdown === 0) && isAdLoaded;
isUnlockable == (countdown = 0) /\ isAdLoaded

\* the unlock button is rendered (isOpen) and not disabled
UnlockEnabled == isModalOpen /\ isUnlockable

\* variant: the ad-load timer is not created
EffectSetup_NoAdLoadTimer ==
    /\ initTimer' = initTimer + 1
    /\ interval' = interval + 1
    /\ adLoadTimer' = adLoadTimer

\* useEffect body, run when isOpen turns true: the three timers are created
EffectSetup ==
    /\ initTimer' = initTimer + 1
    /\ interval' = interval + 1
    /\ adLoadTimer' = adLoadTimer + 1

\* variant: the timer is not cleared
Clear_Forgotten(timer) == timer

\* clearTimeout / clearInterval of a timer of this effect run: a timer that
\* already ran (or cleared itself) is not pending and clearing it does nothing
Clear(timer) == IF timer > 0 THEN timer - 1 ELSE 0

\* variant: the clean-up does not reset the ad-loaded flag
EffectCleanup_KeepsAdLoaded ==
    /\ initTimer' = Clear(initTimer)
    /\ interval' = Clear(interval)
    /\ adLoadTimer' = Clear(adLoadTimer)
    /\ isAdLoaded' = isAdLoaded

\* useEffect clean-up, run when isOpen turns false
EffectCleanup ==
    /\ initTimer' = Clear(initTimer)
    /\ interval' = Clear(interval)
    /\ adLoadTimer' = Clear(adLoadTimer)
    /\ isAdLoaded' = FALSE

\* React runs the effect of [isOpen] after a commit that changed isOpen
\* (set-up when it became true, clean-up when it became false)
ModalEffect(wasOpen, nowOpen) ==
    IF ~wasOpen /\ nowOpen
    THEN /\ EffectSetup
         /\ UNCHANGED <<countdown, isAdLoaded>>
    ELSE IF wasOpen /\ ~nowOpen
    THEN /\ EffectCleanup
         /\ UNCHANGED countdown
    ELSE UNCHANGED gateVars

\* session history: reset when a session starts
SessionHistory(wasOpen, nowOpen, staged) ==
    IF ~wasOpen /\ nowOpen
    THEN /\ ticks' = 0
         /\ adLoadFired' = FALSE
         /\ openedFor' = staged
    ELSE UNCHANGED <<ticks, adLoadFired, openedFor>>

\* initTimer = setTimeout(() => setCountdown(15), 0)
InitTimerFire ==
    /\ initTimer > 0
    /\ initTimer' = initTimer - 1
    /\ countdown' = CountdownStart
    /\ navigated' = NoNav
    /\ lastStep' = "initTimer"
    /\ UNCHANGED adVars
    /\ UNCHANGED <<pageVars, isAdLoaded, interval, adLoadTimer>>
    /\ UNCHANGED <<ticks, adLoadFired, openedFor>>
    /\ RenderAds(isModalOpen, isModalOpen)

\* the setCountdown updater of the interval callback
CountdownUpdater(prev) == IF prev <= 1 THEN 0 ELSE prev - 1

\* variant: the updater never calls clearInterval
IntervalTick_NeverCleared ==
    /\ interval > 0
    /\ initTimer = 0
    /\ countdown' = CountdownUpdater(countdown)
    /\ interval' = interval
    /\ ticks' = ticks + 1
    /\ navigated' = NoNav
    /\ lastStep' = "tick"
    /\ UNCHANGED adVars
    /\ UNCHANGED <<pageVars, isAdLoaded, initTimer, adLoadTimer>>
    /\ UNCHANGED <<adLoadFired, openedFor>>
    /\ RenderAds(isModalOpen, isModalOpen)

\* interval = setInterval(..., 1000).  A timer started earlier with a smaller
\* delay runs first, so no tick precedes initTimer (delay 0).
IntervalTick ==
    /\ interval > 0
    /\ initTimer = 0
    /\ countdown' = CountdownUpdater(countdown)
    \* clearInterval(interval) inside the updater
    /\ interval' = IF countdown <= 1 THEN interval - 1 ELSE interval
    /\ ticks' = ticks + 1
    /\ navigated' = NoNav
    /\ lastStep' = "tick"
    /\ UNCHANGED adVars
    /\ UNCHANGED <<pageVars, isAdLoaded, initTimer, adLoadTimer>>
    /\ UNCHANGED <<adLoadFired, openedFor>>
    /\ RenderAds(isModalOpen, isModalOpen)

\* adLoadTimer = setTimeout(() => setIsAdLoaded(true), 2000).  It runs after
\* initTimer (delay 0) and after the first tick (delay 1000), both started
\* before it; its order against later ticks is not fixed.
AdLoadTimerFire ==
    /\ adLoadTimer > 0
    /\ initTimer = 0
    /\ ticks >= 1
    /\ adLoadTimer' = adLoadTimer - 1
    /\ isAdLoaded' = TRUE
    /\ adLoadFired' = TRUE
    /\ navigated' = NoNav
    /\ lastStep' = "adLoadTimer"
    /\ UNCHANGED adVars
    /\ UNCHANGED <<pageVars, countdown, initTimer, interval>>
    /\ UNCHANGED <<ticks, openedFor>>
    /\ RenderAds(isModalOpen, isModalOpen)

\* ---------------------------------------------------------------- page
\* onChange={(e) => setUrl(e.target.value)}
SetUrl(u) ==
    /\ u # url
    /\ url' = u
    /\ navigated' = NoNav
    /\ lastStep' = "setUrl"
    /\ UNCHANGED adVars
    /\ UNCHANGED <<loading, error, results, isModalOpen, selectedFormat, inflight>>
    /\ UNCHANGED gateVars
    /\ UNCHANGED <<ticks, adLoadFired, openedFor>>
    /\ RenderAds(isModalOpen, isModalOpen)

\* variant: the submit button is not disabled while loading
SubmitEnabled_WhileLoading == url # ""

\* the form can be submitted: the submit button has disabled={loading} and the
\* input is `required`
SubmitEnabled == ~loading /\ url # ""

\* handleFetch up to the await
handleFetch ==
    /\ SubmitEnabled
    /\ loading' = TRUE
    /\ error' = NoError
    /\ results' = NoResults
    /\ inflight' = Append(inflight, url)
    /\ navigated' = NoNav
    /\ lastStep' = "handleFetch"
    /\ UNCHANGED adVars
    /\ UNCHANGED <<url, isModalOpen, selectedFormat>>
    /\ UNCHANGED gateVars
    /\ UNCHANGED <<ticks, adLoadFired, openedFor>>
    /\ RenderAds(isModalOpen, isModalOpen)

\* what the catch block displays for a thrown Error with message m
CatchMessage(m) == IF m # "" THEN m ELSE ConnectError

\* variant: the detail of the body is ignored
HttpErrorMessage_Generic(detail) == GenericError

\* what `throw new Error(errorData.detail || "An unknown error occurred.")`
\* carries for a non-2xx response (undefined and "" are falsy)
HttpErrorMessage(detail) ==
    IF detail \in {MissingDetail, ""} THEN GenericError ELSE detail

\* the sequence without its i-th element
RemoveAt(seq, i) ==
    [k \in 1..(Len(seq) - 1) |-> IF k < i THEN seq[k] ELSE seq[k + 1]]

\* the i-th request in flight is answered; finally { setLoading(false) }
FetchDone(i) ==
    /\ loading' = FALSE
    /\ inflight' = RemoveAt(inflight, i)
    /\ navigated' = NoNav
    /\ UNCHANGED <<url, isModalOpen, selectedFormat>>
    /\ UNCHANGED gateVars
    /\ UNCHANGED <<ticks, adLoadFired, openedFor>>
    /\ RenderAds(isModalOpen, isModalOpen)

\* response.ok: setResults(data)
FetchOk(i, data) ==
    /\ i \in DOMAIN inflight
    /\ results' = data
    /\ lastStep' = "fetchOk"
    /\ UNCHANGED adVars
    /\ UNCHANGED error
    /\ FetchDone(i)

\* !response.ok: the detail of the body is thrown and caught
FetchHttpError(i, detail) ==
    /\ i \in DOMAIN inflight
    /\ error' = CatchMessage(HttpErrorMessage(detail))
    /\ lastStep' = "fetchHttpError"
    /\ UNCHANGED adVars
    /\ UNCHANGED results
    /\ FetchDone(i)

\* fetch rejects: the thrown Error is caught
FetchNetworkError(i, m) ==
    /\ i \in DOMAIN inflight
    /\ error' = CatchMessage(m)
    /\ lastStep' = "fetchNetworkError"
    /\ UNCHANGED adVars
    /\ UNCHANGED results
    /\ FetchDone(i)

\* the download url _handleDownload builds from the format and the results
DownloadUrl(format, res) ==
    [url |-> res.original_url,
     format_id |-> format.format_id,
     title |-> res.title,
     ext |-> format.ext,
     quality |-> format.quality]

\* _handleDownload(format): what it assigns to window.location.href
HandleDownload(format) ==
    IF results = NoResults THEN NoNav ELSE DownloadUrl(format, results)

\* the format buttons the page renders: results.formats.map(...)
RenderedFormats ==
    IF results = NoResults THEN {}
    ELSE {results.formats[k] : k \in DOMAIN results.formats}

\* variant: the branches are swapped
NeedsUnlock_Inverted(format) == ~format.is_premium

\* variant: no format is routed through the gate
NeedsUnlock_Never(format) == FALSE

\* if (format.is_premium)
NeedsUnlock(format) == format.is_premium

\* handleFormatClick(format)
handleFormatClick(format) ==
    /\ format \in RenderedFormats
    /\ lastStep' = "handleFormatClick"
    /\ UNCHANGED adVars
    /\ UNCHANGED <<url, loading, error, results, inflight>>
    /\ IF NeedsUnlock(format)
       THEN /\ selectedFormat' = format
            /\ isModalOpen' = TRUE
            /\ navigated' = NoNav
            /\ ModalEffect(isModalOpen, TRUE)
            /\ SessionHistory(isModalOpen, TRUE, format)
            /\ RenderAds(isModalOpen, TRUE)
       ELSE /\ navigated' = HandleDownload(format)
            /\ UNCHANGED <<isModalOpen, selectedFormat>>
            /\ UNCHANGED gateVars
            /\ UNCHANGED <<ticks, adLoadFired, openedFor>>
            /\ RenderAds(isModalOpen, isModalOpen)

\* variant: confirm closes the modal but keeps the staged format
handleUnlockRequest_KeepsStaged ==
    /\ UnlockEnabled
    /\ lastStep' = "handleUnlockRequest"
    /\ UNCHANGED adVars
    /\ UNCHANGED <<url, loading, error, results, inflight>>
    /\ IF selectedFormat # NoFormat
       THEN /\ navigated' = HandleDownload(selectedFormat)
            /\ isModalOpen' = FALSE
            /\ selectedFormat' = selectedFormat
            /\ ModalEffect(isModalOpen, FALSE)
            /\ RenderAds(isModalOpen, FALSE)
       ELSE /\ navigated' = NoNav
            /\ UNCHANGED <<isModalOpen, selectedFormat>>
            /\ UNCHANGED gateVars
            /\ RenderAds(isModalOpen, isModalOpen)
    /\ UNCHANGED <<ticks, adLoadFired, openedFor>>

\* onUnlock = handleUnlockRequest, behind the button's disabled={!isUnlockable}
handleUnlockRequest ==
    /\ UnlockEnabled
    /\ lastStep' = "handleUnlockRequest"
    /\ UNCHANGED adVars
    /\ UNCHANGED <<url, loading, error, results, inflight>>
    /\ IF selectedFormat # NoFormat
       THEN /\ navigated' = HandleDownload(selectedFormat)
            /\ isModalOpen' = FALSE
            /\ selectedFormat' = NoFormat
            /\ ModalEffect(isModalOpen, FALSE)
            /\ RenderAds(isModalOpen, FALSE)
       ELSE /\ navigated' = NoNav
            /\ UNCHANGED <<isModalOpen, selectedFormat>>
            /\ UNCHANGED gateVars
            /\ RenderAds(isModalOpen, isModalOpen)
    /\ UNCHANGED <<ticks, adLoadFired, openedFor>>

\* variant: cancel closes the modal but keeps the staged format
onClose_KeepsStaged ==
    /\ isModalOpen
    /\ isModalOpen' = FALSE
    /\ selectedFormat' = selectedFormat
    /\ navigated' = NoNav
    /\ lastStep' = "onClose"
    /\ UNCHANGED adVars
    /\ ModalEffect(isModalOpen, FALSE)
    /\ RenderAds(isModalOpen, FALSE)
    /\ UNCHANGED <<url, loading, error, results, inflight>>
    /\ UNCHANGED <<ticks, adLoadFired, openedFor>>

\* onClose of the modal (the Cancel button, rendered while open)
onClose ==
    /\ isModalOpen
    /\ isModalOpen' = FALSE
    /\ selectedFormat' = NoFormat
    /\ navigated' = NoNav
    /\ lastStep' = "onClose"
    /\ UNCHANGED adVars
    /\ ModalEffect(isModalOpen, FALSE)
    /\ RenderAds(isModalOpen, FALSE)
    /\ UNCHANGED <<url, loading, error, results, inflight>>
    /\ UNCHANGED <<ticks, adLoadFired, openedFor>>

PageInit ==
    /\ url = ""
    /\ loading = FALSE
    /\ error = NoError
    /\ results = NoResults
    /\ isModalOpen = FALSE
    /\ selectedFormat = NoFormat
    /\ inflight = <<>>
    /\ countdown = CountdownStart
    /\ isAdLoaded = FALSE
    /\ initTimer = 0
    /\ interval = 0
    /\ adLoadTimer = 0
    /\ navigated = NoNav
    /\ lastStep = "init"
    /\ ticks = 0
    /\ adLoadFired = FALSE
    /\ openedFor = NoFormat
    \* the adsbygoogle.js script is loaded after the page is interactive, so
    \* the banner's mount effect found no queue
    /\ adsbygoogle = FALSE
    /\ pushed = 0
    /\ slotAd = "none"

\* layout.tsx does not mount AdProvider around the page
AdUnmounted ==
    /\ platform = FALSE
    /\ rewardedAd = NoAd
    /\ isAdReady = FALSE
    /\ mountTimer = FALSE
    /\ scriptLoading = FALSE
    /\ requests = {}
    /\ issued = 0
    /\ showing = {}
    /\ shown = [a \in Ads |-> 0]
    /\ adStep = "init"
    /\ rewarded = FALSE
    /\ sinceReward = -1
    /\ loadedSinceTerminal = TRUE

Init == PageInit /\ AdUnmounted

\* AdProvider just mounted.  Either the SDK script ran before (the platform
\* global is defined, the mount effect has scheduled the deferred preload and
\* onLoad will not fire again), or the script is still loading and the mount
\* effect found no platform global.
AdMounted ==
    /\ platform \in BOOLEAN
    /\ rewardedAd = NoAd
    /\ isAdReady = FALSE
    /\ mountTimer = platform
    /\ scriptLoading = ~platform
    /\ requests = {}
    /\ issued = 0
    /\ showing = {}
    /\ shown = [a \in Ads |-> 0]
    /\ adStep = "init"
    /\ rewarded = FALSE
    /\ sinceReward = -1
    /\ loadedSinceTerminal = TRUE

AdInit == PageInit /\ AdMounted

ShowCallsPossible ==
    {[ad |-> a, call |-> c, earned |-> e] :
        a \in Ads, c \in 1..MaxShows, e \in BOOLEAN}

AdNext ==
    \/ MountTimerFire
    \/ \E defines \in BOOLEAN : ScriptOnLoad(defines)
    \/ \E r \in Ads : OnAdLoaded(r)
    \/ \E r \in Ads : OnAdFailedToLoad(r)
    \/ showRewardedAd
    \/ \E s \in ShowCallsPossible : OnUserEarnedReward(s)
    \/ \E s \in ShowCallsPossible : OnAdClosed(s)

AdSpec == AdInit /\ [][AdNext]_vars

Next ==
    \/ \E u \in Urls : SetUrl(u)
    \/ handleFetch
    \/ \E i \in DOMAIN inflight, data \in Responses : FetchOk(i, data)
    \/ \E i \in DOMAIN inflight, detail \in Details : FetchHttpError(i, detail)
    \/ \E i \in DOMAIN inflight, m \in ThrownMessages : FetchNetworkError(i, m)
    \/ \E format \in AllFormats : handleFormatClick(format)
    \/ handleUnlockRequest
    \/ onClose
    \/ InitTimerFire
    \/ IntervalTick
    \/ AdLoadTimerFire
    \/ AdsScriptLoad
    \/ SlotPainted

Spec == Init /\ [][Next]_vars

\* a pending timer of the browser runs in the end: setTimeout and setInterval
\* callbacks are not starved by the user's events
TimerFairness ==
    /\ WF_vars(InitTimerFire)
    /\ WF_vars(IntervalTick)
    /\ WF_vars(AdLoadTimerFire)

LiveSpec == Init /\ [][Next]_vars /\ TimerFairness

\* ---------------------------------------------------------------- claims
TimerSteps == {"initTimer", "tick", "adLoadTimer"}

\* the format a download url was built for is a premium one
PremiumNav(nav) ==
    \E f \in AllFormats : f.format_id = nav.format_id /\ f.is_premium

\* C1: while the gate is open the unlock action is enabled exactly when
\* countdown is 0 and the ad-loaded flag is true.
C1_UnlockEnabledIff ==
    isModalOpen =>
        ((ENABLED handleUnlockRequest) <=> (countdown = 0 /\ isAdLoaded = TRUE))

\* an open gate whose unlock action is enabled
C1_Witness ==
    isModalOpen /\ countdown = 0 /\ isAdLoaded /\ ENABLED handleUnlockRequest

\* C2: in every open session, a re-open included, the unlock action is disabled
\* until 15 ticks of this session have run and this session's ad-load timer
\* has set the flag.
C2_DisabledUntilBoth ==
    (isModalOpen /\ ENABLED handleUnlockRequest) =>
        (ticks >= CountdownStart /\ adLoadFired)

\* a re-opened gate showing the countdown 0 the earlier session ended with
C2_Witness ==
    isModalOpen /\ initTimer > 0 /\ countdown = 0 /\ ticks = 0
        /\ ~ENABLED handleUnlockRequest

\* C3: selectFormat routes by is_premium only: a free format is downloaded at
\* once and the gate is not opened; a premium format opens the gate with that
\* format staged and nothing is downloaded in that step.
C3_RoutesByPremium ==
    [][\A f \in AllFormats :
          handleFormatClick(f) =>
              IF f.is_premium
              THEN /\ isModalOpen'
                   /\ selectedFormat' = f
                   /\ navigated' = NoNav
              ELSE /\ navigated' = DownloadUrl(f, results)
                   /\ isModalOpen' = isModalOpen
                   /\ selectedFormat' = selectedFormat
                   /\ UNCHANGED gateVars]_vars

\* a premium format was clicked and the gate is open on it, nothing downloaded
C3_Witness ==
    /\ lastStep = "handleFormatClick"
    /\ isModalOpen
    /\ selectedFormat # NoFormat
    /\ navigated = NoNav

\* C4 as stated: a premium download comes only from the confirm action of an
\* unlockable session that was opened for that format.
C4_Original ==
    [][(navigated' # NoNav /\ PremiumNav(navigated')) =>
          /\ lastStep' = "handleUnlockRequest"
          /\ isModalOpen /\ countdown = 0 /\ isAdLoaded
          /\ openedFor # NoFormat
          /\ openedFor.format_id = navigated'.format_id]_vars

\* C4 amended: a premium download comes only from the confirm action of an
\* open, unlockable session in which that format is the staged one (staged at
\* the open or by a later premium click while the gate was open).
C4_PremiumOnlyByConfirm ==
    [][(navigated' # NoNav /\ PremiumNav(navigated')) =>
          /\ lastStep' = "handleUnlockRequest"
          /\ isModalOpen /\ countdown = 0 /\ isAdLoaded
          /\ selectedFormat # NoFormat
          /\ selectedFormat.format_id = navigated'.format_id
          /\ ~isModalOpen']_vars

\* a premium format has just been downloaded by the confirm action
C4_Witness ==
    /\ lastStep = "handleUnlockRequest"
    /\ navigated # NoNav
    /\ PremiumNav(navigated)

\* C5: while the gate is closed no timer of the gate is pending and no timer
\* callback runs; at any time at most one timer of each kind exists.
C5_NoTimerWhileClosed ==
    /\ ~isModalOpen => (initTimer = 0 /\ interval = 0 /\ adLoadTimer = 0)
    /\ initTimer <= 1 /\ interval <= 1 /\ adLoadTimer <= 1
    /\ lastStep \in TimerSteps => isModalOpen

\* the gate was cancelled while its interval and ad-load timer were pending
C5_Witness ==
    /\ lastStep = "onClose"
    /\ ~isModalOpen
    /\ countdown \in 1..(CountdownStart - 1)
    /\ interval = 0 /\ adLoadTimer = 0

\* C6 as stated: the state the gate opens in has countdown 15 and ad-loaded
\* false.
C6_Original ==
    [][(~isModalOpen /\ isModalOpen') =>
          (countdown' = CountdownStart /\ isAdLoaded' = FALSE)]_vars

\* C7 as stated: at most one ad request is outstanding at the platform (the
\* provider holds one handle variable, so at most one ready handle).
C7_Original ==
    Cardinality(requests) <= 1

\* C8 as stated: when a show succeeds after an earned-reward callback, exactly
\* one request was issued since that callback.
C8_Original ==
    [][adStep' = "showOk" => sinceReward \in {-1, 1}]_vars

\* C9: a terminal ad event (earned-reward or closed) leaves readiness false
\* and issues one new request in that step, and a show succeeds only if an
\* onAdLoaded arrived after the last terminal event.
C9_TerminalEventReloads ==
    [][/\ adStep' \in {"earned", "closed"} =>
            /\ isAdReady' = FALSE
            /\ issued' = issued + 1
            /\ requests' = requests \cup {issued'}
       /\ adStep' = "showOk" => loadedSinceTerminal]_vars

\* the ad was closed: the handle is still held, not ready, a request is out
C9_Witness ==
    /\ adStep = "closed"
    /\ rewardedAd # NoAd
    /\ ~isAdReady
    /\ issued \in requests

\* C10 as stated: no handle is shown more than once.
C10_Original ==
    \A a \in Ads : shown[a] <= 1

\* C11 as stated: after onAdFailedToLoad readiness is false and the handle is
\* null, whatever handle was held before.
C11_Original ==
    [][adStep' = "onAdFailedToLoad" =>
          (isAdReady' = FALSE /\ rewardedAd' = NoAd)]_vars

\* C12: readiness is false whenever the ad handle is null.
C12_NullHandleNotReady ==
    rewardedAd = NoAd => isAdReady = FALSE

\* a request was answered (here by a failure) while no handle was ever stored
C12_Witness ==
    /\ rewardedAd = NoAd
    /\ adStep = "onAdFailedToLoad"
    /\ issued >= 1

\* C13: showRewardedAd called with a null handle or with readiness false
\* signals failure, does not run onReward, makes no show call and no request,
\* and leaves handle and readiness unchanged.
C13_ShowNotReadyFails ==
    [][(adStep' \in {"showOk", "showAlert"}
            /\ (rewardedAd = NoAd \/ isAdReady = FALSE)) =>
          /\ adStep' = "showAlert"
          /\ rewarded' = FALSE
          /\ UNCHANGED <<showing, shown>>
          /\ UNCHANGED <<requests, issued>>
          /\ UNCHANGED <<rewardedAd, isAdReady>>]_vars

\* the alert was raised while a handle was held that is not ready
C13_Witness ==
    /\ adStep = "showAlert"
    /\ rewardedAd # NoAd
    /\ ~isAdReady

\* C15: a non-2xx answer whose JSON body carries a non-empty detail string
\* ends with exactly that string displayed and no results; with an empty or
\* missing detail the generic fallback is displayed.
C15_HttpErrorDetail ==
    [][\A d \in Details :
          (\E i \in DOMAIN inflight : FetchHttpError(i, d)) =>
              /\ error' = IF d = MissingDetail \/ d = ""
                          THEN "An unknown error occurred."
                          ELSE d
              /\ results' = NoResults
              /\ loading' = FALSE]_vars

\* the backend's detail is on display and there are no results
C15_Witness ==
    /\ lastStep = "fetchHttpError"
    /\ error = "bad url"
    /\ results = NoResults

\* C16 as stated: a network-level failure displays the generic connectivity
\* message, whatever message the thrown failure carries.
C16_Original ==
    [][lastStep' = "fetchNetworkError" =>
          error' = "Failed to connect to the backend. Is it running?"]_vars

\* C17: at most one analysis request is in flight; right after a submit the
\* previous results and error are cleared and loading is true; after the
\* response the state shows the outcome of that request only.
C17_OneAnalysisInFlight ==
    [][/\ Len(inflight') <= 1
       /\ lastStep' = "handleFetch" =>
            /\ results' = NoResults /\ error' = NoError
            /\ loading' = TRUE
            /\ inflight' = <<url>>
       /\ lastStep' = "fetchOk" =>
            /\ results' \in Responses /\ error' = NoError
            /\ loading' = FALSE
            /\ inflight' = <<>>
       /\ lastStep' \in {"fetchHttpError", "fetchNetworkError"} =>
            /\ results' = NoResults /\ error' # NoError
            /\ loading' = FALSE
            /\ inflight' = <<>>]_vars

\* a submit made while the gate was open on a format of the earlier results:
\* those results are gone and the request is in flight
C17_Witness ==
    /\ lastStep = "handleFetch"
    /\ isModalOpen
    /\ results = NoResults /\ error = NoError
    /\ loading
    /\ Len(inflight) = 1

\* C18 as stated: the confirm action runs only when the gate is unlockable,
\* triggers the download of the staged format, and leaves the gate closed
\* with no staged format.
C18_Original ==
    [][lastStep' = "handleUnlockRequest" =>
          /\ isModalOpen /\ countdown = 0 /\ isAdLoaded
          /\ selectedFormat # NoFormat
          /\ navigated' # NoNav
          /\ navigated'.format_id = selectedFormat.format_id
          /\ isModalOpen' = FALSE
          /\ selectedFormat' = NoFormat]_vars

\* C19: cancel closes the gate and clears the staged format and does nothing
\* else: no download, and url, results, error and loading are unchanged.
C19_CancelFrame ==
    [][lastStep' = "onClose" =>
          /\ isModalOpen
          /\ isModalOpen' = FALSE
          /\ selectedFormat' = NoFormat
          /\ navigated' = NoNav
          /\ UNCHANGED <<url, results, error, loading, inflight>>]_vars

\* the gate was cancelled part-way through its countdown, results still shown
C19_Witness ==
    /\ lastStep = "onClose"
    /\ ~isModalOpen
    /\ selectedFormat = NoFormat
    /\ results # NoResults
    /\ countdown \in 1..(CountdownStart - 1)

\* C14 as stated: the unlock action of an open gate is enabled only if an ad
\* has actually loaded in the gate's slot.
C14_Original ==
    (isModalOpen /\ ENABLED handleUnlockRequest) => slotAd = "painted"

\* C20: a step that opens the gate mounts its AdDisplay and pushes exactly one
\* command when the queue exists and none when it does not; a step that does
\* not mount an AdDisplay (the slot of every mounted instance is unchanged)
\* pushes nothing.
C20_OnePushPerMount ==
    [][/\ (~isModalOpen /\ isModalOpen') =>
            pushed' = (IF adsbygoogle THEN 1 ELSE 0)
       /\ ~(~isModalOpen /\ isModalOpen') => pushed' = 0]_vars

\* the gate has just been opened with the queue present: one command pushed
C20_Witness ==
    /\ lastStep = "handleFormatClick"
    /\ isModalOpen
    /\ adsbygoogle
    /\ pushed = 1

\* C21: the countdown always lies in 0..15; a tick lowers it by exactly 1 while
\* it is above 0 and leaves it alone at 0, and the tick that takes it from 1 to
\* 0 stops the interval.
C21_CountdownFloor ==
    [][/\ countdown \in 0..CountdownStart
       /\ countdown' \in 0..CountdownStart
       /\ lastStep' = "tick" =>
             /\ countdown > 0 => countdown' = countdown - 1
             /\ countdown = 0 => countdown' = 0
             /\ countdown = 1 => interval' = 0]_vars

\* the last tick of a session has just run: countdown 0, interval stopped
C21_Witness ==
    /\ lastStep = "tick"
    /\ isModalOpen
    /\ countdown = 0
    /\ interval = 0
    /\ ticks = CountdownStart

\* C22: the gate is open exactly when a staged format is held.
C22_OpenIffStaged ==
    isModalOpen <=> (selectedFormat # NoFormat)

\* a confirm has just closed the gate and cleared the staged format
C22_Witness ==
    /\ lastStep = "handleUnlockRequest"
    /\ navigated # NoNav
    /\ ~isModalOpen
    /\ selectedFormat = NoFormat

\* C23 as stated: the format_id, ext and quality of every download request
\* belong to a format of the AnalyzeResponse whose original_url and title it
\* carries.
C23_Original ==
    [][navigated' # NoNav =>
          \E r \in Responses :
              /\ navigated'.url = r.original_url
              /\ navigated'.title = r.title
              /\ \E k \in DOMAIN r.formats :
                     /\ navigated'.format_id = r.formats[k].format_id
                     /\ navigated'.ext = r.formats[k].ext
                     /\ navigated'.quality = r.formats[k].quality]_vars

\* C24 as stated: a load or failure callback of a request that is not the most
\* recently issued one changes neither the handle nor readiness.
C24_Original ==
    [][\A r \in requests :
          (/\ adStep' \in {"onAdLoaded", "onAdFailedToLoad"}
           /\ requests' = requests \ {r}
           /\ r < issued)
          => UNCHANGED <<rewardedAd, isAdReady>>]_vars

\* C25: with the timers firing fairly, an open gate is closed or reaches a state
\* with the unlock action enabled, and the action then stays enabled for as
\* long as the gate stays open.
C25_EventuallyUnlockable ==
    /\ isModalOpen ~> (UnlockEnabled \/ ~isModalOpen)
    /\ [][(UnlockEnabled /\ isModalOpen') => UnlockEnabled']_vars

\* the gate became unlockable in a session and is still open
C25_Witness ==
    /\ UnlockEnabled
    /\ lastStep \in TimerSteps
    /\ ticks = CountdownStart
    /\ adLoadFired
====
